---- MODULE Spec2Model ----
(***************************************************************************)
(* Model of the UbiquityTauri backend (src-tauri/src):                     *)
(*   - lib.rs         adopt_device, the adoption orchestrator              *)
(*   - ssh_process.rs set_inform through the system ssh client             *)
(*   - ssh.rs         set_inform through the russh library                 *)
(*   - discovery.rs   scan_network and parse_tlv_response                  *)
(*                                                                         *)
(* Strings are sequences of tokens (pieces of text), so that format!,      *)
(* Display and trim are computed rather than assumed.  Option<T> is a      *)
(* sequence of length 0 (None) or 1 (Some).                                *)
(***************************************************************************)
EXTENDS Integers, Sequences, FiniteSets, TLC

VARIABLES
    pc,               \* per call: the position inside adopt_device
    target,           \* per call: the arguments of adopt_device
    s1calls,          \* per call: how often ssh_process::set_inform was invoked
    s2calls,          \* per call: how often ssh::set_inform was invoked
    s1args,           \* per call: the arguments ssh_process::set_inform received
    s2args,           \* per call: the arguments ssh::set_inform received
    s1res,            \* per call: the Result ssh_process::set_inform returned
    s2res,            \* per call: the Result ssh::set_inform returned
    use_sshpass,      \* per call: the local of ssh_process::set_inform
    output,           \* per call: the process Output held while the script is removed
    askRead,          \* per call: what the spawned ssh client got from SSH_ASKPASS
    ret,              \* per call: the Result adopt_device returned
    askpass,          \* the file <temp_dir>/vivaspot_askpass.sh
    sshpassInstalled, \* whether `which sshpass` finds the helper right now
    scan_pc,          \* the position inside scan_network
    devices,          \* scan_network's local Vec<DiscoveredDevice>
    rxlog,            \* the datagrams recv_from has delivered to this scan, in order
    recv_calls,       \* how often this scan has called recv_from
    scan_stop,        \* why the receive loop of this scan was left ("" while it runs)
    scan_ret,         \* the Result scan_network returned
    buf,              \* the datagram that the last recv_from put into buf, if any
    scan_late,        \* whether Instant::now() has reached the deadline of this scan
    dframe,           \* the bytes handed to parse_tlv_response
    dsrc,             \* the source address handed to parse_tlv_response
    dcut,             \* how many bytes of the frame were cut off its end
    ddone,            \* whether parse_tlv_response has returned
    dresult,          \* what parse_tlv_response returned
    cout,             \* the Output of a finished ssh client that is classified
    cdone,            \* whether the classifications have returned
    cres1,            \* what ssh_process::set_inform makes of cout
    cres2             \* what ssh::set_inform makes of the same text on a channel

adoptVars == <<pc, target, s1calls, s2calls, s1args, s2args, s1res, s2res,
               use_sshpass, output, askRead, ret, askpass, sshpassInstalled>>
scanVars == <<scan_pc, devices, rxlog, recv_calls, scan_stop, scan_ret, buf, scan_late>>
decodeVars == <<dframe, dsrc, dcut, ddone, dresult>>
classVars == <<cout, cdone, cres1, cres2>>
vars == <<pc, target, s1calls, s2calls, s1args, s2args, s1res, s2res,
          use_sshpass, output, askRead, ret, askpass, sshpassInstalled,
          scan_pc, devices, rxlog, recv_calls, scan_stop, scan_ret, buf, scan_late,
          dframe, dsrc, dcut, ddone, dresult, cout, cdone, cres1, cres2>>

(***************************************************************************)
(* Option and text helpers                                                 *)
(***************************************************************************)
None == <<>>
Some(x) == <<x>>
UnwrapOr(opt, dflt) == IF opt = None THEN dflt ELSE opt[1]

\* The needles of the classification code that occur inside a token.
Needles(tok) ==
    CASE tok = "Permission denied, please try again." -> {"Permission denied"}
      [] tok = "Authentication failed." -> {"Authentication failed"}
      [] tok = "ssh: connect to host port 22: Connection refused" -> {"Connection refused"}
      [] tok = "ssh: connect to host port 22: Operation timed out" -> {"timed out"}
      [] tok = "Connection timeout" -> {"Connection timeout"}
      [] tok = "set-inform: Error: could not resolve host" -> {"Error", "inform"}
      [] tok = "set-inform: error: could not resolve host" -> {"error", "inform"}
      [] tok = "ERROR: unknown command" -> {"ERROR"}
      [] tok = "Adoption request sent to http://ctrl/inform" -> {"inform"}
      [] tok = "syntax error" -> {"error"}
      [] OTHER -> {}

\* str::to_lowercase on a needle.
LowerNeedle(n) ==
    CASE n = "Error" -> "error"
      [] n = "ERROR" -> "error"
      [] OTHER -> n

\* str::contains, and str::contains after to_lowercase.
Contains(text, needle) ==
    \E i \in DOMAIN text : needle \in Needles(text[i])
ContainsLower(text, needle) ==
    \E i \in DOMAIN text : \E n \in Needles(text[i]) : LowerNeedle(n) = needle

IsSpace(tok) == tok \in {"\n", " "}

RECURSIVE TrimStart(_)
TrimStart(text) ==
    IF text # <<>> /\ IsSpace(Head(text)) THEN TrimStart(Tail(text)) ELSE text

RECURSIVE TrimEnd(_)
TrimEnd(text) ==
    IF text # <<>> /\ IsSpace(text[Len(text)])
    THEN TrimEnd(SubSeq(text, 1, Len(text) - 1))
    ELSE text

\* str::trim
Trim(text) == TrimEnd(TrimStart(text))

IsSuffix(s, t) ==
    Len(s) <= Len(t) /\ SubSeq(t, Len(t) - Len(s) + 1, Len(t)) = s

(***************************************************************************)
(* SshError, its Display, and the results of the two strategies            *)
(***************************************************************************)
FailureKinds ==
    {"ConnectionRefused", "ConnectionTimeout", "AuthFailed", "CommandFailed", "Other"}

Ok(text) == [ok |-> TRUE, kind |-> "Ok", msg |-> text]
Err(kind, text) == [ok |-> FALSE, kind |-> kind, msg |-> text]
NoResult == [ok |-> FALSE, kind |-> "none", msg |-> <<>>]

DisplayPrefix(kind) ==
    CASE kind = "ConnectionRefused" -> "Connection refused: "
      [] kind = "ConnectionTimeout" -> "Connection timeout: "
      [] kind = "AuthFailed" -> "Authentication failed: "
      [] kind = "CommandFailed" -> "Command failed: "
      [] kind = "Other" -> "SSH error: "

\* impl Display for SshError: e.to_string()
Display(e) == <<DisplayPrefix(e.kind)>> \o e.msg

(***************************************************************************)
(* Inputs and environment outcomes                                         *)
(***************************************************************************)
Calls == {"a", "b"}

Hosts == {"192.168.1.20", "192.168.1.21"}
Urls == {"http://ctrl/inform", "http://10.0.0.5:8080/inform"}
\* custom_password: None, or a password holding a single quote
CustomPasswords == {None, Some(<<"p", "'", "w">>)}

DEFAULT_PASSWORD == <<"u", "b", "n", "t">>

Targets == [ip : Hosts, inform_url : Urls, custom_password : CustomPasswords]
NoTarget == [ip |-> "", inform_url |-> "", custom_password |-> None]

\* std::process::Output of the ssh client: exit status, stdout, stderr
ProcOutput(success, stdout, stderr) ==
    [success |-> success, stdout |-> stdout, stderr |-> stderr]
NoOutput == ProcOutput(FALSE, <<>>, <<>>)
ProcOutputs ==
    { ProcOutput(TRUE, <<"Adoption request sent to http://ctrl/inform", "\n">>,
                       <<"Warning: Permanently added host", "\n">>),
      ProcOutput(TRUE, <<"syntax error", "\n">>, <<>>),
      ProcOutput(FALSE, <<>>, <<"Permission denied, please try again.", "\n">>),
      ProcOutput(FALSE, <<>>, <<"ssh: connect to host port 22: Connection refused", "\n">>),
      ProcOutput(FALSE, <<>>, <<"ssh: connect to host port 22: Operation timed out", "\n">>),
      ProcOutput(FALSE, <<>>, <<"kex_exchange_identification: Connection reset", "\n">>) }

(***************************************************************************)
(* ssh_process.rs                                                          *)
(***************************************************************************)
\* password.replace('\'', "'\\''")
RECURSIVE ShellEscape(_)
ShellEscape(password) ==
    IF password = <<>> THEN <<>>
    ELSE (IF Head(password) = "'" THEN <<"'\\''">> ELSE <<Head(password)>>)
         \o ShellEscape(Tail(password))

\* format!("#!/bin/sh\necho '{}'", ...)
AskpassContent(password) ==
    <<"#!/bin/sh\necho '">> \o ShellEscape(password) \o <<"'">>

\* What /bin/sh prints when it runs the script: the quoted word, with every
\* '\'' read back as one quote.
RECURSIVE ShellUnescape(_)
ShellUnescape(word) ==
    IF word = <<>> THEN <<>>
    ELSE (IF Head(word) = "'\\''" THEN <<"'">> ELSE <<Head(word)>>)
         \o ShellUnescape(Tail(word))
ScriptEcho(content) == ShellUnescape(SubSeq(content, 2, Len(content) - 1))

NoFile == [exists |-> FALSE, writer |-> "", content |-> <<>>, mode |-> ""]
\* tokio::fs::write: creates the file, or truncates an existing one keeping its mode
WrittenFile(old, c, content) ==
    [exists |-> TRUE, writer |-> c, content |-> content,
     mode |-> IF old.exists THEN old.mode ELSE "0644"]

NotRead == [done |-> FALSE, found |-> FALSE, writer |-> "", password |-> <<>>]

TimedOutError(ip) == Err("ConnectionTimeout", <<"Timed out connecting to ", ip>>)

\* Mutant of ClassifyOutput: a refused connection is looked for before a
\* rejected password.
ClassifyOutputRefusedFirst(ip, out) ==
    LET combined == Trim(out.stdout \o <<"\n">> \o out.stderr)
    IN  IF ~out.success
        THEN IF Contains(combined, "Connection refused")
             THEN Err("ConnectionRefused", <<"Connection refused at ", ip>>)
             ELSE IF Contains(combined, "Permission denied")
                     \/ Contains(combined, "Authentication failed")
             THEN Err("AuthFailed",
                      <<"Authentication failed for ", ip,
                        " (mojibake dash) password may have been changed from factory default">>)
             ELSE IF Contains(combined, "timed out")
                     \/ Contains(combined, "Connection timeout")
             THEN TimedOutError(ip)
             ELSE Err("Other", <<"Failed to connect to ", ip, ": ">> \o combined)
        ELSE IF ContainsLower(out.stdout, "error") /\ ~ContainsLower(out.stdout, "inform")
             THEN Err("CommandFailed",
                      <<"set-inform returned an error: ">> \o Trim(out.stdout))
             ELSE Ok(Trim(out.stdout))

\* Lines 137-178: the classification of the client's Output.
ClassifyOutput(ip, out) ==
    LET combined == Trim(out.stdout \o <<"\n">> \o out.stderr)
    IN  IF ~out.success
        THEN IF Contains(combined, "Permission denied")
                \/ Contains(combined, "Authentication failed")
             THEN Err("AuthFailed",
                      <<"Authentication failed for ", ip,
                        " (mojibake dash) password may have been changed from factory default">>)
             ELSE IF Contains(combined, "Connection refused")
             THEN Err("ConnectionRefused", <<"Connection refused at ", ip>>)
             ELSE IF Contains(combined, "timed out")
                     \/ Contains(combined, "Connection timeout")
             THEN TimedOutError(ip)
             ELSE Err("Other", <<"Failed to connect to ", ip, ": ">> \o combined)
        ELSE IF ContainsLower(out.stdout, "error") /\ ~ContainsLower(out.stdout, "inform")
             THEN Err("CommandFailed",
                      <<"set-inform returned an error: ">> \o Trim(out.stdout))
             ELSE Ok(Trim(out.stdout))

\* ssh_process::set_inform returns r to adopt_device.
S1Return(c, r) ==
    /\ s1res' = [s1res EXCEPT ![c] = r]
    /\ pc' = [pc EXCEPT ![c] = "s1_returned"]

\* Mutant of AdoptStart: both strategies are launched at once.
AdoptStartBoth(c, targets) ==
    /\ pc[c] = "idle"
    /\ \E t \in targets :
        /\ target' = [target EXCEPT ![c] = t]
        /\ s1args' = [s1args EXCEPT ![c] = t]
        /\ s2args' = [s2args EXCEPT ![c] = t]
    /\ s1calls' = [s1calls EXCEPT ![c] = @ + 1]
    /\ s2calls' = [s2calls EXCEPT ![c] = @ + 1]
    /\ pc' = [pc EXCEPT ![c] = "s1_which"]
    /\ UNCHANGED <<s1res, s2res, use_sshpass, output, askRead, ret, askpass,
                   sshpassInstalled>>

\* adopt_device is called and invokes ssh_process::set_inform (lib.rs 73-77).
AdoptStart(c, targets) ==
    /\ pc[c] = "idle"
    /\ \E t \in targets :
        /\ target' = [target EXCEPT ![c] = t]
        /\ s1args' = [s1args EXCEPT ![c] = t]
    /\ s1calls' = [s1calls EXCEPT ![c] = @ + 1]
    /\ pc' = [pc EXCEPT ![c] = "s1_which"]
    /\ UNCHANGED <<s2calls, s2args, s1res, s2res, use_sshpass, output, askRead,
                   ret, askpass, sshpassInstalled>>

\* Mutant of WhichSshpass: once a call has found the helper, later probes
\* answer from that finding.
WhichSshpassCached(c) ==
    /\ pc[c] = "s1_which"
    /\ \E ran \in BOOLEAN :
        LET found == ran /\ (sshpassInstalled \/ \E o \in Calls : use_sshpass[o])
        IN  /\ use_sshpass' = [use_sshpass EXCEPT ![c] = found]
            /\ pc' = [pc EXCEPT ![c] = IF found THEN "s1_sshpass" ELSE "s1_write"]
    /\ UNCHANGED <<target, s1calls, s2calls, s1args, s2args, s1res, s2res, output,
                   askRead, ret, askpass, sshpassInstalled>>

\* `which sshpass` (lines 50-57); a failure to run `which` reads as "not found".
WhichSshpass(c) ==
    /\ pc[c] = "s1_which"
    /\ \E ran \in BOOLEAN :
        LET found == ran /\ sshpassInstalled
        IN  /\ use_sshpass' = [use_sshpass EXCEPT ![c] = found]
            /\ pc' = [pc EXCEPT ![c] = IF found THEN "s1_sshpass" ELSE "s1_write"]
    /\ UNCHANGED <<target, s1calls, s2calls, s1args, s2args, s1res, s2res, output,
                   askRead, ret, askpass, sshpassInstalled>>

\* The sshpass variant (lines 59-83) followed by the classification.
SshpassRun(c) ==
    /\ pc[c] = "s1_sshpass"
    /\ \/ S1Return(c, TimedOutError(s1args[c].ip))
       \/ S1Return(c, Err("Other", <<"Failed to run sshpass: ", "No such file or directory">>))
       \/ \E o \in ProcOutputs : S1Return(c, ClassifyOutput(s1args[c].ip, o))
    /\ UNCHANGED <<target, s1calls, s2calls, s1args, s2args, s2res, use_sshpass,
                   output, askRead, ret, askpass, sshpassInstalled>>

\* tokio::fs::write of the askpass script (lines 89-95).
AskpassWrite(c) ==
    /\ pc[c] = "s1_write"
    /\ \/ /\ askpass' = WrittenFile(askpass, c,
                  AskpassContent(UnwrapOr(s1args[c].custom_password, DEFAULT_PASSWORD)))
          /\ pc' = [pc EXCEPT ![c] = "s1_chmod"]
          /\ UNCHANGED s1res
       \/ /\ S1Return(c, Err("Other", <<"Failed to create askpass script: ", "Permission denied (os error 13)">>))
          /\ UNCHANGED askpass
    /\ UNCHANGED <<target, s1calls, s2calls, s1args, s2args, s2res, use_sshpass,
                   output, askRead, ret, sshpassInstalled>>

\* set_permissions(0o700) (lines 98-104); it fails when the path is gone.
AskpassChmod(c) ==
    /\ pc[c] = "s1_chmod"
    /\ \/ /\ askpass.exists
          /\ askpass' = [askpass EXCEPT !.mode = "0700"]
          /\ pc' = [pc EXCEPT ![c] = "s1_spawn"]
          /\ UNCHANGED s1res
       \/ /\ S1Return(c, Err("Other", <<"Failed to chmod askpass: ", "os error">>))
          /\ UNCHANGED askpass
    /\ UNCHANGED <<target, s1calls, s2calls, s1args, s2args, s2res, use_sshpass,
                   output, askRead, ret, sshpassInstalled>>

\* Command::new("ssh")...output() starts the client, or fails to (line 129).
SshSpawn(c) ==
    /\ pc[c] = "s1_spawn"
    /\ \/ /\ pc' = [pc EXCEPT ![c] = "s1_ssh"]
          /\ UNCHANGED s1res
       \/ S1Return(c, Err("Other", <<"Failed to run ssh: ", "No such file or directory">>))
    /\ UNCHANGED <<target, s1calls, s2calls, s1args, s2args, s2res, use_sshpass,
                   output, askRead, ret, askpass, sshpassInstalled>>

\* The running client executes $SSH_ASKPASS (lines 119-120) to get the password.
SshAskpass(c) ==
    /\ pc[c] = "s1_ssh"
    /\ ~askRead[c].done
    /\ askRead' = [askRead EXCEPT ![c] =
            IF askpass.exists /\ askpass.mode = "0700"
            THEN [done |-> TRUE, found |-> TRUE, writer |-> askpass.writer,
                  password |-> ScriptEcho(askpass.content)]
            ELSE [done |-> TRUE, found |-> FALSE, writer |-> "", password |-> <<>>]]
    /\ UNCHANGED <<pc, target, s1calls, s2calls, s1args, s2args, s1res, s2res,
                   use_sshpass, output, ret, askpass, sshpassInstalled>>

\* The 15 s timeout elapses (line 128), or the client exits with its Output.
SshFinish(c) ==
    /\ pc[c] = "s1_ssh"
    /\ \/ /\ S1Return(c, TimedOutError(s1args[c].ip))
          /\ UNCHANGED output
       \/ \E o \in ProcOutputs :
            /\ output' = [output EXCEPT ![c] = o]
            /\ pc' = [pc EXCEPT ![c] = "s1_remove"]
            /\ UNCHANGED s1res
    /\ UNCHANGED <<target, s1calls, s2calls, s1args, s2args, s2res, use_sshpass,
                   askRead, ret, askpass, sshpassInstalled>>

\* remove_file, its error ignored (line 132), then the classification.
AskpassRemove(c) ==
    /\ pc[c] = "s1_remove"
    /\ askpass' = NoFile
    /\ S1Return(c, ClassifyOutput(s1args[c].ip, output[c]))
    /\ output' = [output EXCEPT ![c] = NoOutput]
    /\ UNCHANGED <<target, s1calls, s2calls, s1args, s2args, s2res, use_sshpass,
                   askRead, ret, sshpassInstalled>>

(***************************************************************************)
(* ssh.rs                                                                  *)
(***************************************************************************)
ChannelMsg(type, data) == [type |-> type, data |-> data]
\* What channel.wait() yields until the channel closes.
ChannelStreams ==
    { <<ChannelMsg("Data", <<"Adoption request sent to http://ctrl/inform", "\n">>),
        ChannelMsg("ExitStatus", <<>>)>>,
      <<ChannelMsg("ExtendedData", <<"syntax error", "\n">>),
        ChannelMsg("ExitStatus", <<>>), ChannelMsg("Eof", <<>>)>>,
      <<>> }

\* The while-let loop of lines 146-160.
RECURSIVE CollectOutput(_)
CollectOutput(msgs) ==
    IF msgs = <<>> THEN <<>>
    ELSE (IF Head(msgs).type \in {"Data", "ExtendedData"} THEN Head(msgs).data ELSE <<>>)
         \o CollectOutput(Tail(msgs))

\* Lines 167-174.
ClassifyChannelOutput(out) ==
    IF ContainsLower(out, "error") /\ ~ContainsLower(out, "inform")
    THEN Err("CommandFailed", <<"set-inform returned an error: ">> \o Trim(out))
    ELSE Ok(Trim(out))

\* ssh::set_inform returns r to adopt_device.
S2Return(c, r) ==
    /\ s2res' = [s2res EXCEPT ![c] = r]
    /\ pc' = [pc EXCEPT ![c] = "s2_returned"]

S2Goto(c, next) ==
    /\ pc' = [pc EXCEPT ![c] = next]
    /\ UNCHANGED s2res

\* Mutant of S2Connect: after connecting the channel is opened at once.
S2ConnectSkipsAuth(c) ==
    /\ pc[c] = "s2_connect"
    /\ \/ S2Goto(c, "s2_channel")
       \/ S2Return(c, TimedOutError(s2args[c].ip))
    /\ UNCHANGED <<target, s1calls, s2calls, s1args, s2args, s1res, use_sshpass,
                   output, askRead, ret, askpass, sshpassInstalled>>

\* timeout(10 s, client::connect) (lines 102-115).
S2Connect(c) ==
    /\ pc[c] = "s2_connect"
    /\ \/ S2Goto(c, "s2_auth")
       \/ S2Return(c, TimedOutError(s2args[c].ip))
       \/ \E msg \in {"Connection refused (os error 111)", "No route to host"} :
            S2Return(c, IF msg = "Connection refused (os error 111)"
                        THEN Err("ConnectionRefused", <<"Connection refused at ", s2args[c].ip>>)
                        ELSE Err("Other", <<"Failed to connect to ", s2args[c].ip, ": ", msg>>))
    /\ UNCHANGED <<target, s1calls, s2calls, s1args, s2args, s1res, use_sshpass,
                   output, askRead, ret, askpass, sshpassInstalled>>

\* authenticate_password (lines 119-129).
S2Authenticate(c) ==
    /\ pc[c] = "s2_auth"
    /\ \/ S2Goto(c, "s2_channel")
       \/ S2Return(c, Err("AuthFailed",
                <<"Authentication failed for ", s2args[c].ip,
                  " (em dash) password may have been changed from factory default">>))
       \/ S2Return(c, Err("Other", <<"Auth error: ", "Disconnected">>))
    /\ UNCHANGED <<target, s1calls, s2calls, s1args, s2args, s1res, use_sshpass,
                   output, askRead, ret, askpass, sshpassInstalled>>

\* channel_open_session (lines 135-138).
S2OpenChannel(c) ==
    /\ pc[c] = "s2_channel"
    /\ \/ S2Goto(c, "s2_exec")
       \/ S2Return(c, Err("Other", <<"Failed to open channel: ", "Disconnected">>))
    /\ UNCHANGED <<target, s1calls, s2calls, s1args, s2args, s1res, use_sshpass,
                   output, askRead, ret, askpass, sshpassInstalled>>

\* channel.exec (lines 140-143).
S2Exec(c) ==
    /\ pc[c] = "s2_exec"
    /\ \/ S2Goto(c, "s2_wait")
       \/ S2Return(c, Err("CommandFailed", <<"Failed to execute command: ", "Disconnected">>))
    /\ UNCHANGED <<target, s1calls, s2calls, s1args, s2args, s1res, use_sshpass,
                   output, askRead, ret, askpass, sshpassInstalled>>

\* The channel closes after delivering a stream of messages (lines 146-174).
S2Collect(c) ==
    /\ pc[c] = "s2_wait"
    /\ \E msgs \in ChannelStreams :
         S2Return(c, ClassifyChannelOutput(CollectOutput(msgs)))
    /\ UNCHANGED <<target, s1calls, s2calls, s1args, s2args, s1res, use_sshpass,
                   output, askRead, ret, askpass, sshpassInstalled>>

\* The awaits of lines 119-147 (authenticate_password, channel_open_session,
\* exec with want_reply, channel.wait) have no timeout around them and the
\* session has the default Config, so a device that stops answering leaves the
\* await pending for good.
S2AwaitNeverResolves(c) ==
    /\ pc[c] \in {"s2_auth", "s2_channel", "s2_exec", "s2_wait"}
    /\ pc' = [pc EXCEPT ![c] = "s2_blocked"]
    /\ UNCHANGED <<target, s1calls, s2calls, s1args, s2args, s1res, s2res, use_sshpass,
                   output, askRead, ret, askpass, sshpassInstalled>>

(***************************************************************************)
(* lib.rs: adopt_device                                                    *)
(***************************************************************************)
Pending == [tag |-> "pending", success |-> FALSE, text |-> <<>>]
\* Ok(AdoptResult { success: true, output })
AdoptOk(out) == [tag |-> "Ok", success |-> TRUE, text |-> out]
AdoptErr(text) == [tag |-> "Err", success |-> FALSE, text |-> text]

\* Mutants of FallsBack: the authentication check left out; Ok falling through.
FallsBackOnAnyError(r) == ~r.ok
FallsBackEvenIfOk(r) == r.kind # "AuthFailed"

\* The match arm that decides what follows ssh_process::set_inform (lines 78-96):
\* TRUE when adopt_device goes on to ssh::set_inform.
FallsBack(r) == ~r.ok /\ r.kind # "AuthFailed"

\* Mutant of FallbackArgs: the override credential is not passed on.
FallbackArgsNoPassword(t) ==
    [ip |-> t.ip, inform_url |-> t.inform_url, custom_password |-> None]

\* The arguments adopt_device hands to ssh::set_inform (line 96).
FallbackArgs(t) ==
    [ip |-> t.ip, inform_url |-> t.inform_url, custom_password |-> t.custom_password]

\* Mutant of ExhaustedError: the text of the last strategy is reported.
ExhaustedErrorLast(t, first, second) ==
    <<"SSH error: ", "Failed to connect to ", t.ip, ": ">> \o Display(second)

\* The error adopt_device returns when both strategies failed (lines 105-110).
ExhaustedError(t, first, second) ==
    <<"SSH error: ", "Failed to connect to ", t.ip, ": ">> \o Display(first)

\* Lines 77-96: the outcome of the first strategy is matched.
AdoptAfterS1(c) ==
    /\ pc[c] = "s1_returned"
    /\ IF FallsBack(s1res[c])
       THEN /\ s2calls' = [s2calls EXCEPT ![c] = @ + 1]
            /\ s2args' = [s2args EXCEPT ![c] = FallbackArgs(target[c])]
            /\ pc' = [pc EXCEPT ![c] = "s2_connect"]
            /\ UNCHANGED ret
       ELSE /\ ret' = [ret EXCEPT ![c] =
                    IF s1res[c].ok THEN AdoptOk(s1res[c].msg)
                    ELSE AdoptErr(Display(s1res[c]))]
            /\ pc' = [pc EXCEPT ![c] = "done"]
            /\ UNCHANGED <<s2calls, s2args>>
    /\ UNCHANGED <<target, s1calls, s1args, s1res, s2res, use_sshpass, output,
                   askRead, askpass, sshpassInstalled>>

\* Lines 96-111: the outcome of the second strategy is matched.
AdoptAfterS2(c) ==
    /\ pc[c] = "s2_returned"
    /\ ret' = [ret EXCEPT ![c] =
            IF s2res[c].ok THEN AdoptOk(s2res[c].msg)
            ELSE AdoptErr(ExhaustedError(target[c], s1res[c], s2res[c]))]
    /\ pc' = [pc EXCEPT ![c] = "done"]
    /\ UNCHANGED <<target, s1calls, s2calls, s1args, s2args, s1res, s2res,
                   use_sshpass, output, askRead, askpass, sshpassInstalled>>

\* The helper is installed or removed while the application runs.
ToggleSshpass ==
    /\ sshpassInstalled' = ~sshpassInstalled
    /\ UNCHANGED <<pc, target, s1calls, s2calls, s1args, s2args, s1res, s2res,
                   use_sshpass, output, askRead, ret, askpass>>

AdoptInit ==
    /\ pc = [c \in Calls |-> "idle"]
    /\ target = [c \in Calls |-> NoTarget]
    /\ s1calls = [c \in Calls |-> 0]
    /\ s2calls = [c \in Calls |-> 0]
    /\ s1args = [c \in Calls |-> NoTarget]
    /\ s2args = [c \in Calls |-> NoTarget]
    /\ s1res = [c \in Calls |-> NoResult]
    /\ s2res = [c \in Calls |-> NoResult]
    /\ use_sshpass = [c \in Calls |-> FALSE]
    /\ output = [c \in Calls |-> NoOutput]
    /\ askRead = [c \in Calls |-> NotRead]
    /\ ret = [c \in Calls |-> Pending]
    /\ askpass = NoFile
    /\ sshpassInstalled \in BOOLEAN

ScanIdle ==
    /\ scan_pc = "idle"
    /\ devices = <<>>
    /\ rxlog = <<>>
    /\ recv_calls = 0
    /\ scan_stop = ""
    /\ scan_ret = [tag |-> "pending", devices |-> <<>>, error |-> <<>>]
    /\ buf = <<>>
    /\ scan_late = FALSE

\* Every step of one adoption call after its start.
AdoptStep(c) ==
    \/ WhichSshpass(c)
    \/ SshpassRun(c)
    \/ AskpassWrite(c)
    \/ AskpassChmod(c)
    \/ SshSpawn(c)
    \/ SshAskpass(c)
    \/ SshFinish(c)
    \/ AskpassRemove(c)
    \/ AdoptAfterS1(c)
    \/ S2Connect(c)
    \/ S2Authenticate(c)
    \/ S2OpenChannel(c)
    \/ S2Exec(c)
    \/ S2Collect(c)
    \/ S2AwaitNeverResolves(c)
    \/ AdoptAfterS2(c)

\* No frame is being decoded on its own.
DecodeIdle ==
    /\ dframe = <<>>
    /\ dsrc = [family |-> "v4", ip |-> <<0, 0, 0, 0>>]
    /\ dcut = 0
    /\ ddone = FALSE
    /\ dresult = None

\* No Output is being classified on its own.
ClassIdle ==
    /\ cout = [success |-> FALSE, stdout |-> <<>>, stderr |-> <<>>]
    /\ cdone = FALSE
    /\ cres1 = NoResult
    /\ cres2 = NoResult

Init == AdoptInit /\ ScanIdle /\ DecodeIdle /\ ClassIdle

\* One adoption call, with every target.
SoloCall == "a"
Next ==
    \/ AdoptStart(SoloCall, Targets) /\ UNCHANGED <<scanVars, decodeVars, classVars>>
    \/ AdoptStep(SoloCall) /\ UNCHANGED <<scanVars, decodeVars, classVars>>
    \/ ToggleSshpass /\ UNCHANGED <<scanVars, decodeVars, classVars>>

Spec == Init /\ [][Next]_vars

\* Two adoption calls running concurrently against different targets with
\* different credentials.
ConcTargets(c) ==
    IF c = "a"
    THEN {[ip |-> "192.168.1.20", inform_url |-> "http://ctrl/inform",
           custom_password |-> None]}
    ELSE {[ip |-> "192.168.1.21", inform_url |-> "http://ctrl/inform",
           custom_password |-> Some(<<"p", "'", "w">>)]}

ConcNext ==
    \/ (\E c \in Calls : AdoptStart(c, ConcTargets(c))) /\ UNCHANGED <<scanVars, decodeVars, classVars>>
    \/ (\E c \in Calls : AdoptStep(c)) /\ UNCHANGED <<scanVars, decodeVars, classVars>>
    \/ ToggleSshpass /\ UNCHANGED <<scanVars, decodeVars, classVars>>

SpecConc == Init /\ [][ConcNext]_vars

\* The one call under the tokio runtime, which polls a task whenever it can
\* make a step.
SpecLive ==
    Init /\ [][Next]_vars
         /\ WF_vars(AdoptStep(SoloCall) /\ UNCHANGED <<scanVars, decodeVars, classVars>>)

(***************************************************************************)
(* discovery.rs                                                            *)
(***************************************************************************)
RECV_BUF_SIZE == 4096
TLV_MAC_ADDRESS == 1
TLV_IP_INFO == 2
TLV_FIRMWARE == 3
TLV_MODEL == 20
TLV_PLATFORM == 11
TLV_MANAGED == 6

\* The number of datagrams one scan receives before the deadline.
MaxDatagrams == 3

HexDigit(n) ==
    <<"0", "1", "2", "3", "4", "5", "6", "7", "8", "9",
      "A", "B", "C", "D", "E", "F">>[n + 1]
\* Mutant of Hex2: the low nibble is printed twice.
Hex2LowTwice(b) == <<HexDigit(b % 16), HexDigit(b % 16)>>
\* format!("{:02X}", b)
Hex2(b) == <<HexDigit(b \div 16), HexDigit(b % 16)>>

\* format!("{}", n) for an unsigned number: its decimal digits
RECURSIVE Decimal(_)
Decimal(n) ==
    IF n < 10 THEN <<HexDigit(n)>> ELSE Decimal(n \div 10) \o <<HexDigit(n % 10)>>

\* .collect::<Vec<_>>().join(sep)
RECURSIVE Join(_, _)
Join(parts, sep) ==
    IF parts = <<>> THEN <<>>
    ELSE IF Len(parts) = 1 THEN parts[1]
    ELSE parts[1] \o <<sep>> \o Join(Tail(parts), sep)

\* Lines 141-145: the MAC as colon-separated upper-case hex.
FormatMac(field_data) ==
    Join([i \in 1..Len(field_data) |-> Hex2(field_data[i])], ":")

\* format!("{}.{}.{}.{}", b0, b1, b2, b3), also Ipv4Addr::to_string
DottedQuad(b) == Join([i \in 1..4 |-> Decimal(b[i])], ".")

\* String::from_utf8_lossy on bytes that are ASCII or stray non-UTF-8 bytes:
\* an ASCII byte is its character, any other byte becomes U+FFFD.
Utf8Lossy(bytes) ==
    [i \in 1..Len(bytes) |-> IF bytes[i] < 128 THEN bytes[i] ELSE 65533]

NoDevice == None
\* Mutant of DeviceDefaults: reported_ip starts empty.
DeviceDefaultsNoReported(source_ip) ==
    [mac |-> <<>>, ip |-> source_ip, reported_ip |-> <<>>, model |-> <<>>,
     firmware |-> <<>>, hostname |-> <<>>, is_managed |-> FALSE]
\* Lines 117-122: the locals before the loop.
DeviceDefaults(source_ip) ==
    [mac |-> <<>>, ip |-> source_ip, reported_ip |-> source_ip, model |-> <<>>,
     firmware |-> <<>>, hostname |-> <<>>, is_managed |-> FALSE]

\* Mutant of ApplyField: the address reported in the payload replaces the
\* reachable address as well.
ApplyFieldOverwritesIp(acc, field_type, field_data) ==
    LET field_len == Len(field_data)
    IN  CASE field_type = TLV_MAC_ADDRESS ->
                IF field_len = 6 THEN [acc EXCEPT !.mac = FormatMac(field_data)] ELSE acc
          [] field_type = TLV_IP_INFO ->
                IF field_len >= 4
                THEN [acc EXCEPT !.reported_ip = DottedQuad(SubSeq(field_data, 1, 4)),
                                 !.ip = DottedQuad(SubSeq(field_data, 1, 4))]
                ELSE acc
          [] field_type = TLV_FIRMWARE -> [acc EXCEPT !.firmware = Utf8Lossy(field_data)]
          [] field_type = TLV_MODEL -> [acc EXCEPT !.model = Utf8Lossy(field_data)]
          [] field_type = TLV_PLATFORM -> [acc EXCEPT !.hostname = Utf8Lossy(field_data)]
          [] field_type = TLV_MANAGED -> [acc EXCEPT !.is_managed = TRUE]
          [] OTHER -> acc

\* The match of lines 138-172 on one complete record.
ApplyField(acc, field_type, field_data) ==
    LET field_len == Len(field_data)
    IN  CASE field_type = TLV_MAC_ADDRESS ->
                IF field_len = 6 THEN [acc EXCEPT !.mac = FormatMac(field_data)] ELSE acc
          [] field_type = TLV_IP_INFO ->
                IF field_len >= 4
                THEN [acc EXCEPT !.reported_ip = DottedQuad(SubSeq(field_data, 1, 4))]
                ELSE acc
          [] field_type = TLV_FIRMWARE -> [acc EXCEPT !.firmware = Utf8Lossy(field_data)]
          [] field_type = TLV_MODEL -> [acc EXCEPT !.model = Utf8Lossy(field_data)]
          [] field_type = TLV_PLATFORM -> [acc EXCEPT !.hostname = Utf8Lossy(field_data)]
          [] field_type = TLV_MANAGED -> [acc EXCEPT !.is_managed = TRUE]
          [] OTHER -> acc

\* Mutant of ParseLoop: a record whose declared length runs past the end of the
\* buffer is applied with the bytes that are there instead of ending the loop.
RECURSIVE ParseLoopAppliesPartial(_, _, _)
ParseLoopAppliesPartial(data, pos, acc) ==
    IF pos + 4 <= Len(data)
    THEN LET field_type == data[pos + 1]
             field_len == data[pos + 2] * 256 + data[pos + 3]
             p == pos + 3
         IN  IF p + field_len > Len(data)
             THEN ApplyField(acc, field_type, SubSeq(data, p + 1, Len(data)))
             ELSE ParseLoopAppliesPartial(data, p + field_len,
                            ApplyField(acc, field_type, SubSeq(data, p + 1, p + field_len)))
    ELSE acc

\* The while loop of lines 127-175; pos counts from 0 as in the source.
RECURSIVE ParseLoop(_, _, _)
ParseLoop(data, pos, acc) ==
    IF pos + 4 <= Len(data)
    THEN LET field_type == data[pos + 1]
             field_len == data[pos + 2] * 256 + data[pos + 3]
             p == pos + 3
         IN  IF p + field_len > Len(data)
             THEN acc
             ELSE ParseLoop(data, p + field_len,
                            ApplyField(acc, field_type, SubSeq(data, p + 1, p + field_len)))
    ELSE acc

\* Mutant of parse_tlv_response: the check for an empty MAC is left out.
ParseNeverEmptyChecked(data, source_ip) ==
    IF Len(data) < 4 THEN NoDevice
    ELSE Some(ParseLoop(data, 4, DeviceDefaults(source_ip)))

\* parse_tlv_response (lines 112-190): Option<DiscoveredDevice>
parse_tlv_response(data, source_ip) ==
    IF Len(data) < 4 THEN NoDevice
    ELSE LET acc == ParseLoop(data, 4, DeviceDefaults(source_ip))
         IN  IF acc.mac = <<>> THEN NoDevice ELSE Some(acc)

\* Lines 80-84: the text of the datagram's source address.
SourceIp(addr) ==
    CASE addr.family = "v4" -> DottedQuad(addr.ip)
      [] addr.family = "v6" -> addr.ip
      [] OTHER -> <<"u", "n", "k", "n", "o", "w", "n">>

\* Lines 74-78: recv_from fills the buffer with at most RECV_BUF_SIZE bytes.
Received(data) ==
    IF Len(data) <= RECV_BUF_SIZE THEN data ELSE SubSeq(data, 1, RECV_BUF_SIZE)

\* Mutant of IsDuplicate: devices are told apart by address, not by MAC.
IsDuplicateByIp(devs, device) ==
    \E i \in DOMAIN devs : devs[i].ip = device.ip

\* Line 89: devices.iter().any(|d| d.mac == device.mac)
IsDuplicate(devs, device) ==
    \E i \in DOMAIN devs : devs[i].mac = device.mac

\* Mutant of Collect: a datagram that decodes to no device empties the list.
CollectResetOnMalformed(devs, dgram) ==
    LET parsed == parse_tlv_response(Received(dgram.data), SourceIp(dgram.addr))
    IN  IF parsed = NoDevice THEN <<>>
        ELSE IF ~IsDuplicate(devs, parsed[1]) THEN Append(devs, parsed[1])
        ELSE devs

\* Lines 87-92: what one received datagram does to the device list.
Collect(devs, dgram) ==
    LET parsed == parse_tlv_response(Received(dgram.data), SourceIp(dgram.addr))
    IN  IF parsed # NoDevice /\ ~IsDuplicate(devs, parsed[1])
        THEN Append(devs, parsed[1])
        ELSE devs

\* Frames that devices on the network send.
Tlv(type, value) == <<type, Len(value) \div 256, Len(value) % 256>> \o value
FrameHeader == <<2, 6, 0, 100>>
MacA == <<170, 187, 204, 221, 238, 255>>
MacB == <<0, 21, 109, 1, 2, 10>>
Frames ==
    { FrameHeader \o Tlv(TLV_MAC_ADDRESS, MacA) \o Tlv(TLV_MODEL, <<65, 80, 49>>),
      FrameHeader \o Tlv(TLV_MAC_ADDRESS, MacA) \o Tlv(TLV_IP_INFO, <<10, 0, 0, 7>>)
                  \o Tlv(TLV_FIRMWARE, <<118, 49>>),
      FrameHeader \o Tlv(127, <<9, 9>>) \o Tlv(TLV_MAC_ADDRESS, MacB)
                  \o Tlv(TLV_MANAGED, <<1>>) \o Tlv(TLV_PLATFORM, <<104, 255>>),
      FrameHeader \o <<TLV_MAC_ADDRESS, 0, 6, 170, 187, 204>>,
      <<1, 0>> }
SourceAddrs ==
    { [family |-> "v4", ip |-> <<192, 168, 1, 20>>],
      [family |-> "v4", ip |-> <<192, 168, 1, 21>>] }
Datagrams == [data : Frames, addr : SourceAddrs]

ScanPending == [tag |-> "pending", devices |-> <<>>, error |-> <<>>]
ScanOk(devs) == [tag |-> "Ok", devices |-> devs, error |-> <<>>]
ScanErr(text) == [tag |-> "Err", devices |-> <<>>, error |-> text]

\* scan_devices runs scan_network on a worker (lib.rs 54-61).
ScanStart ==
    /\ scan_pc \in {"idle", "done"}
    /\ scan_pc' = "setup"
    /\ devices' = <<>>
    /\ rxlog' = <<>>
    /\ recv_calls' = 0
    /\ scan_stop' = ""
    /\ scan_ret' = ScanPending
    /\ buf' = <<>>
    /\ scan_late' = FALSE

\* Lines 42-68: socket, options, bind and the probe; any failure ends the scan.
ScanSetup ==
    /\ scan_pc = "setup"
    /\ \/ /\ scan_pc' = "recv"
          /\ UNCHANGED scan_ret
       \/ \E what \in {"Failed to create socket: ", "Failed to enable broadcast: ",
                       "Failed to set timeout: ", "Failed to bind socket: ",
                       "Failed to send discovery packet: "} :
            /\ scan_ret' = ScanErr(<<what, "os error">>)
            /\ scan_pc' = "done"
    /\ UNCHANGED <<devices, rxlog, recv_calls, scan_stop, buf, scan_late>>

\* Mutant of LoopContinues: the loop does not look at the deadline.
LoopForever(late) == TRUE
\* Line 73: while Instant::now() < deadline.
LoopContinues(late) == ~late

\* recv_calls counts the calls up to one more than the log holds.
CountCall(n) == IF n <= MaxDatagrams THEN n + 1 ELSE n

\* Lines 73-93: the loop test passes and recv_from delivers a datagram, one of
\* those in sent.
ScanRecvOf(sent) ==
    /\ scan_pc = "recv"
    /\ LoopContinues(scan_late)
    /\ Len(rxlog) < MaxDatagrams
    /\ \E d \in sent :
        /\ rxlog' = Append(rxlog, d)
        /\ devices' = Collect(devices, d)
        /\ buf' = <<d>>
    /\ recv_calls' = CountCall(recv_calls)
    /\ UNCHANGED <<scan_pc, scan_stop, scan_ret, scan_late>>

ScanRecv == ScanRecvOf(Datagrams)

\* Lines 73-93 once more: the devices heard so far go on sending, and the loop
\* receives a datagram it has received before. The log keeps the first
\* MaxDatagrams datagrams only.
ScanRecvAgain ==
    /\ scan_pc = "recv"
    /\ LoopContinues(scan_late)
    /\ Len(rxlog) = MaxDatagrams
    /\ \E i \in DOMAIN rxlog :
        /\ devices' = Collect(devices, rxlog[i])
        /\ buf' = <<rxlog[i]>>
    /\ recv_calls' = CountCall(recv_calls)
    /\ UNCHANGED <<scan_pc, rxlog, scan_stop, scan_ret, scan_late>>

\* RECV_TIMEOUT_MS have passed since line 71 took the deadline.
DeadlinePasses ==
    /\ scan_pc = "recv"
    /\ ~scan_late
    /\ scan_late' = TRUE
    /\ UNCHANGED <<scan_pc, devices, rxlog, recv_calls, scan_stop, scan_ret, buf>>

\* Mutant of StopResult: a receive error other than a timeout fails the scan.
StopResultErrOnOther(why, devs) ==
    IF why \in {"WouldBlock", "TimedOut", "deadline"}
    THEN ScanOk(devs)
    ELSE ScanErr(<<"recv_from error: ", why>>)

\* Lines 94-108: every way out of the loop returns Ok(devices).
StopResult(why, devs) == ScanOk(devs)

\* Lines 94-108: recv_from fails (read timeout or another error) and the loop
\* is left; line 73: the deadline has passed when the loop condition is tested.
ScanStop ==
    /\ scan_pc = "recv"
    /\ \E why \in {"WouldBlock", "TimedOut", "ConnectionReset", "deadline"} :
        /\ (why # "deadline") = LoopContinues(scan_late)
        /\ scan_ret' = StopResult(why, devices)
        /\ scan_stop' = why
        /\ recv_calls' = IF why = "deadline" THEN recv_calls ELSE CountCall(recv_calls)
        /\ scan_pc' = "done"
    /\ UNCHANGED <<devices, rxlog, buf, scan_late>>

ScanNext ==
    \/ ScanStart /\ UNCHANGED <<adoptVars, decodeVars, classVars>>
    \/ ScanSetup /\ UNCHANGED <<adoptVars, decodeVars, classVars>>
    \/ ScanRecv /\ UNCHANGED <<adoptVars, decodeVars, classVars>>
    \/ ScanStop /\ UNCHANGED <<adoptVars, decodeVars, classVars>>
    \/ DeadlinePasses /\ UNCHANGED <<adoptVars, decodeVars, classVars>>

ScanInit == Init /\ ~sshpassInstalled

SpecScan == ScanInit /\ [][ScanNext]_vars

\* A network whose devices never stop answering: two devices and a sender of
\* malformed frames.
LiveDatagrams ==
    { [data |-> FrameHeader \o Tlv(TLV_MAC_ADDRESS, MacA) \o Tlv(TLV_MODEL, <<65, 80, 49>>),
       addr |-> [family |-> "v4", ip |-> <<192, 168, 1, 20>>]],
      [data |-> FrameHeader \o Tlv(TLV_MAC_ADDRESS, MacB),
       addr |-> [family |-> "v4", ip |-> <<192, 168, 1, 21>>]],
      [data |-> <<1, 0>>, addr |-> [family |-> "v4", ip |-> <<192, 168, 1, 21>>]] }

ScanLiveNext ==
    \/ ScanStart /\ UNCHANGED <<adoptVars, decodeVars, classVars>>
    \/ ScanSetup /\ UNCHANGED <<adoptVars, decodeVars, classVars>>
    \/ ScanRecvOf(LiveDatagrams) /\ UNCHANGED <<adoptVars, decodeVars, classVars>>
    \/ ScanRecvAgain /\ UNCHANGED <<adoptVars, decodeVars, classVars>>
    \/ ScanStop /\ UNCHANGED <<adoptVars, decodeVars, classVars>>
    \/ DeadlinePasses /\ UNCHANGED <<adoptVars, decodeVars, classVars>>

\* The scan on its worker thread: a step that can be taken is taken, and the
\* clock reaches the deadline.
ScanStep ==
    (ScanSetup \/ ScanRecvOf(LiveDatagrams) \/ ScanRecvAgain \/ ScanStop)
        /\ UNCHANGED <<adoptVars, decodeVars, classVars>>
SpecScanLive ==
    ScanInit /\ [][ScanLiveNext]_vars
             /\ WF_vars(ScanStep)
             /\ WF_vars(DeadlinePasses /\ UNCHANGED <<adoptVars, decodeVars, classVars>>)

(***************************************************************************)
(* parse_tlv_response on its own: frames built from records, cut at any    *)
(* byte, then decoded                                                      *)
(***************************************************************************)
\* The number of records of a frame.
MaxRecords == 2

DecodeRecords ==
    { Tlv(TLV_MAC_ADDRESS, MacA),
      Tlv(TLV_MAC_ADDRESS, MacB),
      Tlv(TLV_MAC_ADDRESS, <<170, 187, 204, 221, 238>>),
      Tlv(TLV_IP_INFO, <<10, 0, 0, 7, 9>>),
      Tlv(TLV_IP_INFO, <<10, 0>>),
      Tlv(TLV_FIRMWARE, <<118, 255>>),
      Tlv(TLV_MODEL, <<65, 80, 49>>),
      Tlv(TLV_MANAGED, <<>>),
      Tlv(127, <<9, 9>>) }

\* The 0-based indexes of data that the loop of lines 127-136 reads: the three
\* header bytes of each record it enters and the value of each record it slices.
RECURSIVE ParseReads(_, _)
ParseReads(data, pos) ==
    IF pos + 4 <= Len(data)
    THEN LET field_len == data[pos + 2] * 256 + data[pos + 3]
             p == pos + 3
         IN  {pos, pos + 1, pos + 2} \cup
             (IF p + field_len > Len(data)
              THEN {}
              ELSE (p..(p + field_len - 1)) \cup ParseReads(data, p + field_len))
    ELSE {}

\* The records a device has put into the frame so far, by their start offset.
RECURSIVE RecordsOf(_, _)
RecordsOf(data, pos) ==
    IF pos >= Len(data) THEN <<>>
    ELSE <<pos>> \o RecordsOf(data, pos + 3 + data[pos + 2] * 256 + data[pos + 3])

DecodeInit ==
    /\ AdoptInit /\ ~sshpassInstalled
    /\ ScanIdle
    /\ ClassIdle
    /\ dframe = FrameHeader
    /\ dsrc \in SourceAddrs
    /\ dcut = 0
    /\ ddone = FALSE
    /\ dresult = None

\* A device puts one more record into the frame it sends.
DecodeAppend ==
    /\ ~ddone /\ dcut = 0
    /\ Len(RecordsOf(dframe, 4)) < MaxRecords
    /\ \E r \in DecodeRecords : dframe' = dframe \o r
    /\ UNCHANGED <<dsrc, dcut, ddone, dresult>>

\* The frame arrives one byte shorter.
DecodeTruncate ==
    /\ ~ddone
    /\ dframe # <<>>
    /\ dframe' = SubSeq(dframe, 1, Len(dframe) - 1)
    /\ dcut' = dcut + 1
    /\ UNCHANGED <<dsrc, ddone, dresult>>

\* parse_tlv_response(data, source_ip) is called and returns.
DecodeRun ==
    /\ ~ddone
    /\ dresult' = parse_tlv_response(dframe, SourceIp(dsrc))
    /\ ddone' = TRUE
    /\ UNCHANGED <<dframe, dsrc, dcut>>

DecodeNext ==
    \/ DecodeAppend /\ UNCHANGED <<adoptVars, scanVars, classVars>>
    \/ DecodeTruncate /\ UNCHANGED <<adoptVars, scanVars, classVars>>
    \/ DecodeRun /\ UNCHANGED <<adoptVars, scanVars, classVars>>

SpecDecode == DecodeInit /\ [][DecodeNext]_vars

(***************************************************************************)
(* The classification of a finished session on its own: an Output built    *)
(* line by line, then classified by both strategies                        *)
(***************************************************************************)
\* The number of lines on stdout and on stderr.
MaxLines == 1

OutputLines ==
    { "Permission denied, please try again.",
      "Authentication failed.",
      "ssh: connect to host port 22: Connection refused",
      "ssh: connect to host port 22: Operation timed out",
      "Connection timeout",
      "set-inform: error: could not resolve host",
      "ERROR: unknown command",
      "syntax error",
      "Adoption request sent to http://ctrl/inform",
      "kex_exchange_identification: Connection reset",
      "\n" }

ClassHost == "192.168.1.20"

\* What the channel of ssh::set_inform yields for the same session: stdout as
\* Data, stderr as ExtendedData, then the exit status.
ChannelOf(out) ==
    <<ChannelMsg("Data", out.stdout), ChannelMsg("ExtendedData", out.stderr),
      ChannelMsg("ExitStatus", <<>>)>>

ClassInit ==
    /\ AdoptInit /\ ~sshpassInstalled
    /\ ScanIdle
    /\ DecodeIdle
    /\ cout \in {ProcOutput(ok, <<>>, <<>>) : ok \in BOOLEAN}
    /\ cdone = FALSE
    /\ cres1 = NoResult
    /\ cres2 = NoResult

\* The command or the client writes a line to stdout.
ClassStdout ==
    /\ ~cdone
    /\ Len(cout.stdout) < MaxLines
    /\ \E l \in OutputLines : cout' = [cout EXCEPT !.stdout = Append(@, l)]
    /\ UNCHANGED <<cdone, cres1, cres2>>

\* The command or the client writes a line to stderr.
ClassStderr ==
    /\ ~cdone
    /\ Len(cout.stderr) < MaxLines
    /\ \E l \in OutputLines : cout' = [cout EXCEPT !.stderr = Append(@, l)]
    /\ UNCHANGED <<cdone, cres1, cres2>>

\* The session ends and each strategy classifies what it captured
\* (ssh_process.rs 136-178, ssh.rs 146-174).
ClassRun ==
    /\ ~cdone
    /\ cdone' = TRUE
    /\ cres1' = ClassifyOutput(ClassHost, cout)
    /\ cres2' = ClassifyChannelOutput(CollectOutput(ChannelOf(cout)))
    /\ UNCHANGED cout

ClassNext ==
    \/ ClassStdout /\ UNCHANGED <<adoptVars, scanVars, decodeVars>>
    \/ ClassStderr /\ UNCHANGED <<adoptVars, scanVars, decodeVars>>
    \/ ClassRun /\ UNCHANGED <<adoptVars, scanVars, decodeVars>>

SpecClass == ClassInit /\ [][ClassNext]_vars

(***************************************************************************)
(* Properties of the adoption orchestrator                                 *)
(***************************************************************************)
Failed(r) == r.kind \in FailureKinds
S1Running(c) == s1calls[c] > 0 /\ s1res[c] = NoResult
S2Running(c) == s2calls[c] > 0 /\ s2res[c] = NoResult
Returned(c) == pc[c] = "done"
Called(c) == pc[c] # "idle"

\* C1: when ssh_process::set_inform returns AuthFailed, ssh::set_inform is never
\* invoked in that call, and the call ends in Err carrying that error's text.
C1_AuthFailureSkipsFallback ==
    \A c \in Calls :
        s1res[c].kind = "AuthFailed" =>
            /\ s2calls[c] = 0
            /\ pc[c] \in {"s1_returned", "done"}
            /\ Returned(c) =>
                /\ ret[c].tag = "Err"
                /\ ret[c].text = <<"Authentication failed: ">> \o s1res[c].msg
C1_Witness ==
    \E c \in Calls : s1res[c].kind = "AuthFailed" /\ Returned(c)

\* C2: when ssh_process::set_inform returns a failure other than AuthFailed,
\* ssh::set_inform is invoked exactly once, with the ip, inform URL and optional
\* password that ssh_process::set_inform received.
C2_OtherFailureFallsBackWithSameTarget ==
    \A c \in Calls :
        /\ s2calls[c] <= 1
        /\ (Failed(s1res[c]) /\ s1res[c].kind # "AuthFailed" /\ pc[c] # "s1_returned") =>
            /\ s2calls[c] = 1
            /\ s2args[c] = s1args[c]
            /\ s2args[c] = target[c]
C2_Witness ==
    \E c \in Calls :
        /\ s1res[c].kind = "ConnectionTimeout"
        /\ s2calls[c] = 1
        /\ s2args[c].custom_password # None
        /\ Returned(c)

\* C3 (as claimed): after CommandFailed from a strategy no further strategy is
\* attempted in that call.
C3_CommandFailedIsTerminal ==
    \A c \in Calls : s1res[c].kind = "CommandFailed" => s2calls[c] = 0

\* C4 (as claimed): when any attempted strategy returned AuthFailed, the call
\* returns that error's own text.
C4_AuthFailureReportedVerbatim ==
    \A c \in Calls :
        Returned(c) =>
            /\ s1res[c].kind = "AuthFailed" => ret[c] = AdoptErr(Display(s1res[c]))
            /\ s2res[c].kind = "AuthFailed" => ret[c] = AdoptErr(Display(s2res[c]))

\* C5: when both strategies fail and neither failure is AuthFailed, the call
\* returns one error that starts like an Other error and ends with the text of
\* the first strategy's error, not the second's.
C5_ExhaustionReportsFirstError ==
    \A c \in Calls :
        ( /\ Returned(c)
          /\ Failed(s1res[c]) /\ s1res[c].kind # "AuthFailed"
          /\ Failed(s2res[c]) /\ s2res[c].kind # "AuthFailed" ) =>
            /\ ret[c].tag = "Err"
            /\ Head(ret[c].text) = DisplayPrefix("Other")
            /\ IsSuffix(Display(s1res[c]), ret[c].text)
            /\ Display(s2res[c]) # Display(s1res[c]) =>
                   ~IsSuffix(Display(s2res[c]), ret[c].text)
C5_Witness ==
    \E c \in Calls :
        /\ Returned(c)
        /\ s1res[c].kind = "ConnectionRefused"
        /\ s2res[c].kind = "CommandFailed"

\* C6: a strategy's Ok ends the call with success and exactly that output, no
\* later strategy is invoked, and the call succeeds only if a strategy did.
C6_FirstSuccessIsTerminal ==
    \A c \in Calls :
        /\ s1res[c].ok =>
            /\ s2calls[c] = 0
            /\ pc[c] \in {"s1_returned", "done"}
            /\ Returned(c) => ret[c] = AdoptOk(s1res[c].msg)
        /\ s2res[c].ok =>
            /\ pc[c] \in {"s2_returned", "done"}
            /\ Returned(c) => ret[c] = AdoptOk(s2res[c].msg)
        /\ (ret[c].tag = "Ok" \/ ret[c].success) =>
            /\ ret[c].tag = "Ok" /\ ret[c].success
            /\ s1res[c].ok \/ s2res[c].ok
C6_Witness ==
    \E c \in Calls : Returned(c) /\ s2res[c].ok /\ ret[c].text # <<>>

\* C7: the two strategies of a call are never in progress together, and
\* ssh::set_inform starts only after ssh_process::set_inform returned a failure.
C7_StrategiesRunOneAtATime ==
    \A c \in Calls :
        /\ ~(S1Running(c) /\ S2Running(c))
        /\ s2calls[c] > 0 => Failed(s1res[c])
        /\ s1calls[c] <= 1
C7_Witness ==
    \E c \in Calls : S2Running(c) /\ pc[c] = "s2_auth"

\* C8 (as claimed): once a call that used the askpass script has returned, the
\* script it wrote no longer exists.
C8_ScriptGoneAfterReturn ==
    \A c \in Calls :
        (Returned(c) /\ ~use_sshpass[c]) => ~(askpass.exists /\ askpass.writer = c)

\* C9 (as claimed): the ssh client of a call gets its password from the script
\* that this call wrote.
C9_ScriptNotShared ==
    \A c \in Calls :
        askRead[c].done =>
            /\ askRead[c].found
            /\ askRead[c].writer = c
            /\ askRead[c].password = UnwrapOr(target[c].custom_password, DEFAULT_PASSWORD)

(***************************************************************************)
(* Properties of the discovery scan                                        *)
(***************************************************************************)
\* What the i-th datagram of this scan decodes to.
Decoded(i) == parse_tlv_response(Received(rxlog[i].data), SourceIp(rxlog[i].addr))
\* Of a log of decoded datagrams, those that are the first to carry their MAC.
FirstOfMac(dec) ==
    { i \in DOMAIN dec :
        /\ dec[i] # NoDevice
        /\ \A j \in 1..(i - 1) : dec[j] = NoDevice \/ dec[j][1].mac # dec[i][1].mac }
\* The k-th of them in order of reception.
KthFirst(firsts, k) ==
    CHOOSE i \in firsts : Cardinality({j \in firsts : j <= i}) = k

\* C10: the device list holds at most one record per MAC; the record kept is the
\* one decoded from the first datagram that carried the MAC, with that datagram's
\* source address, and the records are in order of first reception.
C10_OneRecordPerMacFirstWins ==
    LET dec == [i \in DOMAIN rxlog |-> Decoded(i)]
        firsts == FirstOfMac(dec)
    IN  /\ \A i, j \in DOMAIN devices : i # j => devices[i].mac # devices[j].mac
        /\ Len(devices) = Cardinality(firsts)
        /\ \A k \in DOMAIN devices :
            LET f == KthFirst(firsts, k)
            IN  /\ devices[k] = dec[f][1]
                /\ devices[k].ip = SourceIp(rxlog[f].addr)
        /\ scan_ret.tag = "Ok" => scan_ret.devices = devices
C10_Witness ==
    /\ scan_ret.tag = "Ok"
    /\ Len(scan_ret.devices) = 2
    /\ \E i, j \in DOMAIN rxlog :
        /\ i < j
        /\ Decoded(i) # NoDevice /\ Decoded(j) # NoDevice
        /\ Decoded(i)[1].mac = Decoded(j)[1].mac
        /\ rxlog[i].addr # rxlog[j].addr
        /\ rxlog[i].data # rxlog[j].data

\* C11: the ip of every device of a scan is the source address of the datagram
\* it was decoded from (the first of the scan with its MAC), also when the
\* payload reports another address.
C11_ReachableAddressIsSource ==
    LET dec == [i \in DOMAIN rxlog |-> Decoded(i)]
    IN  \A k \in DOMAIN devices :
            \E i \in DOMAIN rxlog :
                /\ dec[i] # NoDevice
                /\ dec[i][1].mac = devices[k].mac
                /\ \A j \in 1..(i - 1) : dec[j] = NoDevice \/ dec[j][1].mac # devices[k].mac
                /\ devices[k].ip = DottedQuad(rxlog[i].addr.ip)
                /\ devices[k].reported_ip = dec[i][1].reported_ip
C11_Witness ==
    /\ scan_ret.tag = "Ok"
    /\ \E k \in DOMAIN scan_ret.devices :
        /\ scan_ret.devices[k].reported_ip = <<"1", "0", ".", "0", ".", "0", ".", "7">>
        /\ scan_ret.devices[k].ip # scan_ret.devices[k].reported_ip

SetupFailures ==
    {"Failed to create socket: ", "Failed to enable broadcast: ",
     "Failed to set timeout: ", "Failed to bind socket: ",
     "Failed to send discovery packet: "}

\* C14: a scan whose receive loop was left, by a timeout, by any other receive
\* error or by the deadline, returns Ok with the devices collected until then;
\* a scan returns Err only for a failure before the loop, with no recv_from call.
C14_ReceiveFailureIsNotAScanFailure ==
    /\ scan_stop # "" =>
        /\ scan_ret.tag = "Ok"
        /\ scan_ret.devices = devices
        /\ Len(devices) = Cardinality(FirstOfMac([i \in DOMAIN rxlog |-> Decoded(i)]))
    /\ scan_ret.tag = "Err" =>
        /\ scan_stop = ""
        /\ recv_calls = 0
        /\ rxlog = <<>>
        /\ Head(scan_ret.error) \in SetupFailures
    /\ scan_pc = "done" => (scan_ret.tag = "Err") # (scan_stop # "")
C14_Witness ==
    /\ scan_stop = "ConnectionReset"
    /\ scan_ret.tag = "Ok"
    /\ Len(scan_ret.devices) = 2

\* The last datagram received decodes to no device.
LastIsMalformed(log) == log # <<>> /\ parse_tlv_response(
    Received(log[Len(log)].data), SourceIp(log[Len(log)].addr)) = NoDevice

\* C20: a datagram that decodes to no device leaves the device list and the
\* state of the scan as they were and the loop goes on receiving; every MAC
\* decoded from a datagram of the scan, also after such a datagram, is listed.
C20_MalformedStep ==
    (Len(rxlog') = Len(rxlog) + 1 /\ LastIsMalformed(rxlog')) =>
        /\ devices' = devices
        /\ scan_pc' = "recv"
        /\ scan_ret' = ScanPending
C20_MalformedFrameDoesNotAbort ==
    /\ [][C20_MalformedStep]_vars
    /\ [](\A i \in DOMAIN rxlog :
            Decoded(i) # NoDevice =>
                \E k \in DOMAIN devices : devices[k].mac = Decoded(i)[1].mac)
C20_Witness ==
    /\ scan_ret.tag = "Ok"
    /\ Len(rxlog) = 3
    /\ Decoded(1) # NoDevice /\ Decoded(2) = NoDevice /\ Decoded(3) # NoDevice
    /\ Len(scan_ret.devices) = 2

(***************************************************************************)
(* Properties of parse_tlv_response                                        *)
(***************************************************************************)
\* The records of a frame by the TLV layout alone: after the 4-byte header, each
\* record whose 3-byte header and declared value lie inside the frame, up to the
\* first that does not.
RECURSIVE RefRecords(_, _)
RefRecords(data, pos) ==
    IF pos + 3 <= Len(data)
    THEN LET len == data[pos + 2] * 256 + data[pos + 3]
         IN  IF pos + 3 + len <= Len(data)
             THEN <<[type |-> data[pos + 1], at |-> pos,
                     value |-> SubSeq(data, pos + 4, pos + 3 + len)]>>
                  \o RefRecords(data, pos + 3 + len)
             ELSE <<>>
    ELSE <<>>
FrameRecords(data) == RefRecords(data, 4)
IsMacRecord(r) == r.type = TLV_MAC_ADDRESS /\ Len(r.value) = 6

\* C12: parse_tlv_response returns None exactly when the frame holds no fully
\* present MAC record with a 6-byte value, frames under 4 bytes included.
C12_NoneIffNoMac ==
    ddone =>
        LET recs == FrameRecords(dframe)
        IN  (dresult = NoDevice) <=> ~(\E i \in DOMAIN recs : IsMacRecord(recs[i]))
\* A frame with a 5-byte MAC record and a 6-byte one decodes to a record.
C12_Witness ==
    /\ ddone /\ dresult # NoDevice
    /\ \E i \in DOMAIN FrameRecords(dframe) :
        FrameRecords(dframe)[i].type = TLV_MAC_ADDRESS /\ ~IsMacRecord(FrameRecords(dframe)[i])

\* C13: decoding a frame cut after any byte reads only bytes of the buffer and
\* returns None or a record each of whose populated fields is the decoding of a
\* record that lies fully inside what is left of the frame.
C13_TruncationIsSafe ==
    ddone =>
        LET recs == FrameRecords(dframe)
            from(t, ok(_), field, render(_)) ==
                \E i \in DOMAIN recs :
                    recs[i].type = t /\ ok(recs[i].value) /\ field = render(recs[i].value)
            any(v) == TRUE
            six(v) == Len(v) = 6
            four(v) == Len(v) >= 4
            quad(v) == DottedQuad(SubSeq(v, 1, 4))
        IN  /\ ParseReads(dframe, 4) \subseteq 0..(Len(dframe) - 1)
            /\ dresult # NoDevice =>
                LET d == dresult[1]
                IN  /\ from(TLV_MAC_ADDRESS, six, d.mac, FormatMac)
                    /\ d.ip = SourceIp(dsrc)
                    /\ d.reported_ip = SourceIp(dsrc)
                          \/ from(TLV_IP_INFO, four, d.reported_ip, quad)
                    /\ d.firmware = <<>> \/ from(TLV_FIRMWARE, any, d.firmware, Utf8Lossy)
                    /\ d.model = <<>> \/ from(TLV_MODEL, any, d.model, Utf8Lossy)
                    /\ d.hostname = <<>> \/ from(TLV_PLATFORM, any, d.hostname, Utf8Lossy)
                    /\ d.is_managed => \E i \in DOMAIN recs : recs[i].type = TLV_MANAGED
\* A frame of a MAC record and a model record, cut inside the model's value.
C13_Witness ==
    /\ ddone /\ dcut \in 1..2
    /\ dframe = FrameHeader \o Tlv(TLV_MAC_ADDRESS, MacA) \o <<TLV_MODEL, 0, 3>> \o SubSeq(<<65, 80, 49>>, 1, 3 - dcut)
    /\ dresult # NoDevice /\ dresult[1].model = <<>>

\* The value of the last 6-byte MAC record among recs, <<>> if there is none.
RECURSIVE LastMac(_)
LastMac(recs) ==
    IF recs = <<>> THEN <<>>
    ELSE IF IsMacRecord(recs[Len(recs)]) THEN recs[Len(recs)].value
    ELSE LastMac(SubSeq(recs, 1, Len(recs) - 1))
MacC == <<0, 21, 109, 1, 2, 26>>
MacD == <<0, 21, 109, 1, 2, 161>>
MacSamples == {MacA, MacB, MacC, MacD}
UpperHex == {"0", "1", "2", "3", "4", "5", "6", "7", "8", "9", "A", "B", "C", "D", "E", "F"}

\* C15: the mac string of a decoded frame is 6 colon-separated pairs of
\* upper-case hex digits; it equals the mac string of any other frame with the
\* same MAC bytes and differs from that of any frame with other MAC bytes.
C15_MacIsInjective ==
    (ddone /\ dresult # NoDevice) =>
        LET mac == dresult[1].mac
            m == LastMac(FrameRecords(dframe))
            other(m2) == parse_tlv_response(FrameHeader \o Tlv(TLV_MODEL, <<65>>)
                                            \o Tlv(TLV_MAC_ADDRESS, m2), "elsewhere")[1].mac
        IN  /\ Len(mac) = 17
            /\ \A i \in 1..17 : IF i % 3 = 0 THEN mac[i] = ":" ELSE mac[i] \in UpperHex
            /\ \A m2 \in MacSamples : (other(m2) = mac) <=> (m2 = m)
            /\ m = MacA => mac = <<"A", "A", ":", "B", "B", ":", "C", "C", ":",
                                   "D", "D", ":", "E", "E", ":", "F", "F">>
C15_Witness ==
    /\ ddone /\ dresult # NoDevice
    /\ LastMac(FrameRecords(dframe)) = MacB
    /\ dresult[1].mac = <<"0", "0", ":", "1", "5", ":", "6", "D", ":",
                          "0", "1", ":", "0", "2", ":", "0", "A">>

\* What processing every fully present record of the frame gives.
RECURSIVE ApplyAll(_, _)
ApplyAll(recs, acc) ==
    IF recs = <<>> THEN acc
    ELSE ApplyAll(Tail(recs), ApplyField(acc, Head(recs).type, Head(recs).value))
AllRecordsDecoded(data, source_ip) ==
    LET d == ApplyAll(FrameRecords(data), DeviceDefaults(source_ip))
    IN  IF d.mac = <<>> THEN NoDevice ELSE Some(d)

\* C17: every record whose 3-byte header and declared value lie inside the
\* frame is processed, a last record of declared length 0 included; a frame
\* with a MAC record and a managed-indicator record decodes to is_managed = TRUE.
C17_EveryFullRecordIsProcessed ==
    ddone =>
        LET recs == FrameRecords(dframe)
        IN  /\ dresult = AllRecordsDecoded(dframe, SourceIp(dsrc))
            /\ (/\ \E i \in DOMAIN recs : IsMacRecord(recs[i])
                /\ \E i \in DOMAIN recs : recs[i].type = TLV_MANAGED)
               => (dresult # NoDevice /\ dresult[1].is_managed)

\* Records of a type that parse_tlv_response does not know.
UnknownRecords == {Tlv(127, <<9, 9>>), Tlv(200, <<>>)}
\* The offsets at which a record of the frame starts or the last one ends.
Boundaries(data) ==
    IF Len(data) < 4 THEN {}
    ELSE {4} \cup { FrameRecords(data)[i].at + 3 + Len(FrameRecords(data)[i].value) :
                    i \in DOMAIN FrameRecords(data) }
InsertAt(data, at, r) == SubSeq(data, 1, at) \o r \o SubSeq(data, at + 1, Len(data))

\* C18: putting a whole record of an unknown type at any record boundary of
\* a frame does not change what the frame decodes to.
C18_UnknownRecordIsSkipped ==
    ddone =>
        \A at \in Boundaries(dframe) : \A u \in UnknownRecords :
            parse_tlv_response(InsertAt(dframe, at, u), SourceIp(dsrc)) = dresult

\* The value of the last IP-info record of at least 4 bytes, <<>> if none.
RECURSIVE LastIpInfo(_)
LastIpInfo(recs) ==
    IF recs = <<>> THEN <<>>
    ELSE IF recs[Len(recs)].type = TLV_IP_INFO /\ Len(recs[Len(recs)].value) >= 4
         THEN recs[Len(recs)].value
         ELSE LastIpInfo(SubSeq(recs, 1, Len(recs) - 1))

\* C19: reported_ip is the source address when the frame has no IP-info
\* record, and the dotted decimal of the first 4 bytes of the IP-info value
\* when there is one of at least 4 bytes; a frame of the MAC AA:BB:CC:DD:EE:FF
\* and the model "AP1" decodes to that mac, that model and the source address.
C19_ReportedAddressDefaultsToSource ==
    (ddone /\ dresult # NoDevice) =>
        LET recs == FrameRecords(dframe)
            d == dresult[1]
            info == LastIpInfo(recs)
        IN  /\ (\A i \in DOMAIN recs : recs[i].type # TLV_IP_INFO)
                    => d.reported_ip = SourceIp(dsrc)
            /\ info # <<>> =>
                    d.reported_ip = Join(<<Decimal(info[1]), Decimal(info[2]),
                                           Decimal(info[3]), Decimal(info[4])>>, ".")
            /\ dframe = FrameHeader \o Tlv(TLV_MAC_ADDRESS, MacA) \o Tlv(TLV_MODEL, <<65, 80, 49>>)
                    => /\ d.mac = <<"A", "A", ":", "B", "B", ":", "C", "C", ":",
                                    "D", "D", ":", "E", "E", ":", "F", "F">>
                       /\ d.model = <<65, 80, 49>>
                       /\ d.reported_ip = SourceIp(dsrc)
C19_Witness ==
    /\ ddone /\ dcut = 0
    /\ dframe = FrameHeader \o Tlv(TLV_MAC_ADDRESS, MacA) \o Tlv(TLV_MODEL, <<65, 80, 49>>)
    /\ dresult # NoDevice /\ dresult[1].model = <<65, 80, 49>>
    /\ dresult[1].reported_ip = SourceIp(dsrc)

\* C16: every adoption call that was made eventually returns, whatever the
\* device does after accepting the connection.
C16_EveryCallReturns ==
    \A c \in Calls : Called(c) ~> (Returned(c) /\ ret[c].tag \in {"Ok", "Err"})

(***************************************************************************)
(* Termination of the scan                                                 *)
(***************************************************************************)
\* C21: a scan that has entered its receive loop leaves it and returns Ok with
\* the devices collected so far, also when datagrams never stop arriving; it
\* leaves on the deadline or on the first failed recv_from.
C21_ScanTerminates ==
    /\ (scan_pc = "recv") ~> (scan_pc = "done" /\ scan_ret = ScanOk(devices))
    /\ [](scan_late /\ scan_pc = "recv" => ~ENABLED ScanRecvOf(LiveDatagrams)
                                            /\ ~ENABLED ScanRecvAgain)
\* The deadline ended a scan to which datagrams kept arriving after the log was
\* full.
C21_Witness ==
    /\ scan_pc = "done" /\ scan_stop = "deadline" /\ scan_ret = ScanOk(devices)
    /\ Len(rxlog) = MaxDatagrams
    /\ buf # <<rxlog[Len(rxlog)]>>
    /\ Len(devices) > 0

(***************************************************************************)
(* Properties of the two strategies                                        *)
(***************************************************************************)
ScriptedPcs == {"s1_write", "s1_chmod", "s1_spawn", "s1_ssh", "s1_remove"}
NativePcs == {"s2_connect", "s2_auth", "s2_channel", "s2_exec", "s2_wait",
              "s2_blocked", "s2_returned"}

C22_Step ==
    \A c \in Calls :
        /\ (pc[c] = "s1_which" /\ pc'[c] # "s1_which") =>
                /\ use_sshpass'[c] => sshpassInstalled
                /\ pc'[c] = IF use_sshpass'[c] THEN "s1_sshpass" ELSE "s1_write"
        /\ pc[c] # "s1_which" => use_sshpass'[c] = use_sshpass[c]
        /\ pc'[c] = "s1_which" => pc[c] \in {"idle", "s1_which"}
        /\ (pc'[c] = "s1_sshpass" /\ pc[c] # "s1_sshpass") => pc[c] = "s1_which"
        /\ (pc'[c] \in ScriptedPcs /\ pc[c] \notin ScriptedPcs) => pc[c] = "s1_which"
        /\ (pc'[c] \in NativePcs /\ pc[c] \notin NativePcs) =>
                pc[c] = "s1_returned" /\ s1res[c] # NoResult

\* C22: each call probes for sshpass itself and takes the sshpass variant
\* exactly when its own probe found it, else the askpass variant, never both;
\* a probe finds the helper only if it is installed when that call probes; and
\* ssh::set_inform starts only after ssh_process::set_inform has returned.
C22_VariantFollowsOwnProbe ==
    /\ [][C22_Step]_vars
    /\ [](\A c \in Calls :
            /\ pc[c] = "s1_sshpass" => use_sshpass[c]
            /\ pc[c] \in ScriptedPcs => ~use_sshpass[c]
            /\ s1calls[c] <= 1
            /\ s2calls[c] > 0 => (s1calls[c] = 1 /\ s1res[c] # NoResult))
\* Call a has returned after the sshpass variant, the helper is gone, and call
\* b has just chosen the askpass variant.
C22_Witness ==
    /\ pc["a"] = "done" /\ use_sshpass["a"]
    /\ ~sshpassInstalled
    /\ pc["b"] = "s1_write" /\ ~use_sshpass["b"]

\* Everything the client printed, stdout before stderr.
Combined(out) == out.stdout \o <<"\n">> \o out.stderr
\* The kind a non-zero exit is given, with timeoutNeedles the texts that mean a
\* timeout.
KindByPrecedence(text, timeoutNeedles) ==
    IF Contains(text, "Permission denied") \/ Contains(text, "Authentication failed")
    THEN "AuthFailed"
    ELSE IF Contains(text, "Connection refused") THEN "ConnectionRefused"
    ELSE IF \E n \in timeoutNeedles : Contains(text, n) THEN "ConnectionTimeout"
    ELSE "Other"

\* C23 as stated: on a non-zero exit the combined output is classified by
\* "Permission denied"/"Authentication failed", then "Connection refused", then
\* "timed out", else Other; never Success or CommandFailed.
C23_NonZeroExitByPrecedence ==
    (cdone /\ ~cout.success) =>
        /\ cres1.kind = KindByPrecedence(Combined(cout), {"timed out"})
        /\ cres1.kind \notin {"Ok", "CommandFailed"}

\* C23 amended: as above, with "Connection timeout" meaning a timeout as well
\* as "timed out".
C23_NonZeroExitByPrecedenceAmended ==
    (cdone /\ ~cout.success) =>
        /\ cres1.kind = KindByPrecedence(Combined(cout), {"timed out", "Connection timeout"})
        /\ ~cres1.ok
        /\ cres1.kind \notin {"Ok", "CommandFailed"}
\* A non-zero exit whose output names both a rejected password and a refused
\* connection.
C23_Witness ==
    /\ cdone /\ ~cout.success
    /\ Contains(Combined(cout), "Permission denied")
    /\ Contains(Combined(cout), "Connection refused")
    /\ cres1.kind = "AuthFailed"

\* What a strategy returns for the captured text of a completed session if it
\* goes by "error" without "inform".
ByErrorWithoutInform(captured) ==
    IF ContainsLower(captured, "error") /\ ~ContainsLower(captured, "inform")
    THEN "CommandFailed"
    ELSE "Ok"
ResolveError == "set-inform: error: could not resolve host"

\* C24: for a session that ran the command to completion each strategy returns
\* CommandFailed exactly when the captured output contains "error" and not
\* "inform", else Success with that output; and the output
\* "set-inform: error: could not resolve host" is classified as CommandFailed.
C24_ErrorWithoutInformIsCommandFailed ==
    cdone =>
        LET channel == CollectOutput(ChannelOf(cout))
        IN  /\ cout.success =>
                /\ cres1.kind = ByErrorWithoutInform(cout.stdout)
                /\ cres1.ok => cres1.msg = Trim(cout.stdout)
                /\ Trim(cout.stdout) = <<ResolveError>> => cres1.kind = "CommandFailed"
            /\ cres2.kind = ByErrorWithoutInform(channel)
            /\ cres2.ok => cres2.msg = Trim(channel)
            /\ Trim(channel) = <<ResolveError>> => cres2.kind = "CommandFailed"

\* The kinds of result each step of ssh::set_inform can return with.
ReturnsOf(step) ==
    CASE step = "s2_connect" -> {"ConnectionTimeout", "ConnectionRefused", "Other"}
      [] step = "s2_auth" -> {"AuthFailed", "Other"}
      [] step = "s2_channel" -> {"Other"}
      [] step = "s2_exec" -> {"CommandFailed"}
      [] step = "s2_wait" -> {"Ok", "CommandFailed"}
      [] OTHER -> {}

C25_Step ==
    \A c \in Calls :
        /\ pc'[c] # pc[c] =>
            /\ pc'[c] = "s2_connect" => pc[c] = "s1_returned"
            /\ pc'[c] = "s2_auth" => pc[c] = "s2_connect"
            /\ pc'[c] = "s2_channel" => pc[c] = "s2_auth"
            /\ pc'[c] = "s2_exec" => pc[c] = "s2_channel"
            /\ pc'[c] = "s2_wait" => pc[c] = "s2_exec"
            /\ pc'[c] = "s2_returned" => s2res'[c].kind \in ReturnsOf(pc[c])
        /\ s2res'[c] # s2res[c] => (s2res[c] = NoResult /\ pc'[c] = "s2_returned")
        /\ (s2res'[c] # s2res[c] /\ s2res'[c].kind = "AuthFailed") => pc[c] = "s2_auth"

\* C25: ssh::set_inform goes through connect, authenticate, open channel,
\* exec and collect in that order, each step entered only when the one
\* before it succeeded; a failing step returns at once, and AuthFailed is
\* returned from the authentication step, before a channel is opened or the
\* command is sent.
C25_StepsInOrder ==
    /\ [][C25_Step]_vars
    /\ [](\A c \in Calls :
            /\ pc[c] \in NativePcs \ {"s2_returned"} => s2res[c] = NoResult
            /\ pc[c] \in NativePcs => s2calls[c] = 1)
C25_Witness ==
    \E c \in Calls :
        /\ pc[c] = "s2_returned"
        /\ s2res[c].kind = "AuthFailed"

====
